---- MODULE Spec2Model ----
(***************************************************************************)
(* Model of the audio utilities of intro-ml-2024:                          *)
(*   src/audio/denoise.py       denoise, butter_bandpass, denoise_basic    *)
(*   src/audio/spectrogram.py   gen_spectrogram, save_spectrogram          *)
(*   src/scripts/spectrogram_script.py   process                           *)
(* The library calls the code makes (scipy.signal.butter, sosfilt, the     *)
(* matplotlib.pyplot state machine) are modelled at the call sites.        *)
(***************************************************************************)
EXTENDS Integers, Sequences, FiniteSets, TLC

VARIABLES
    audio,      \* the caller's AudioData: [audio_signal, sample_rate]
    dn,         \* the last call into denoise.py and how it ended
    pyplot,     \* matplotlib.pyplot's module state: [figs, stack]
    files,      \* the image files written, by path
    frame,      \* per caller: the spectrogram.py call it is in, its locals and result
    proc        \* the run of process(): its arguments, loop index and the paths saved

vars == <<audio, dn, pyplot, files, frame, proc>>

(***************************************************************************)
(* Bounds of the model.                                                    *)
(***************************************************************************)
MaxLen == 2                      \* longest sample buffer

SampleValues == {0, 1}           \* raw sample values
SampleRates == {-8000, 0, 16000, 16400, 16401, 44100}
Cutoffs == {-80, 0, 80, 1000, 8200, 12000}

(***************************************************************************)
(* Exact fractions: the quotients of denoise.py lines 53-55.  For the      *)
(* integer frequencies of the model the float quotient compares with 0     *)
(* and 1 exactly as the fraction does (IEEE division is correctly rounded  *)
(* and monotone).                                                          *)
(***************************************************************************)
RInt(k) == [num |-> k, den |-> 1]

Half == [num |-> 1, den |-> 2]

RMul(a, b) == [num |-> a.num * b.num, den |-> a.den * b.den]

RDiv(a, b) == [num |-> a.num * b.den, den |-> a.den * b.num]

RLeq(a, b) ==
    IF (a.den > 0) = (b.den > 0)
    THEN a.num * b.den <= b.num * a.den
    ELSE a.num * b.den >= b.num * a.den

RLt(a, b) == ~RLeq(b, a)

(***************************************************************************)
(* Sample buffers.  A sample is the response of a filter to a prefix of    *)
(* raw values; a raw value k is the response of no filter to <<k>>.        *)
(***************************************************************************)
NoSos == [order |-> 0, low |-> RInt(0), high |-> RInt(0)]

Raw(k) == [sos |-> NoSos, pre |-> <<k>>]

RECURSIVE SeqsUpTo(_, _)
SeqsUpTo(S, n) ==
    IF n = 0 THEN {<<>>}
    ELSE LET shorter == SeqsUpTo(S, n - 1)
         IN  shorter \cup {Append(s, x) : s \in {t \in shorter : Len(t) = n - 1}, x \in S}

Buffers == {[i \in 1..Len(s) |-> Raw(s[i])] : s \in SeqsUpTo(SampleValues, MaxLen)}

RawValues(x) == [i \in 1..Len(x) |-> x[i].pre[Len(x[i].pre)]]

(***************************************************************************)
(* DenoiseType and the values a caller can pass for denoise_type.          *)
(***************************************************************************)
BASIC == [cls |-> "DenoiseType", value |-> 1]

DenoiseModes ==
    { BASIC,
      [cls |-> "DenoiseType", value |-> 2],     \* a member added later
      [cls |-> "int", value |-> 1],             \* the raw value of BASIC
      [cls |-> "NoneType", value |-> 0] }

(***************************************************************************)
(* How a call ends.  err = "none": it returned ret.  lib: the library      *)
(* calls it made, in order.  x: the input buffer after the call.  ref:     *)
(* which array object ret is ("new", "input", or "none").                  *)
(***************************************************************************)
Raised(e, lib, x) ==
    [err |-> e, sos |-> NoSos, ret |-> <<>>, ref |-> "none", lib |-> lib, x |-> x]

(***************************************************************************)
(* scipy.signal.butter(order, [low, high], btype='band', output='sos').    *)
(* It rejects critical frequencies outside 0 < Wn < 1; for low >= high     *)
(* inside that range it raises or designs a degenerate filter, depending   *)
(* on the scipy version.                                                   *)
(***************************************************************************)
butter(order, low, high) ==
    LET designed == [err |-> "none", sos |-> [order |-> order, low |-> low, high |-> high]]
        rejected == [err |-> "ScipyValueError", sos |-> NoSos]
        inside(w) == RLt(RInt(0), w) /\ RLt(w, RInt(1))
    IN  IF ~(inside(low) /\ inside(high)) THEN {rejected}
        ELSE IF RLeq(high, low) THEN {rejected, designed}
        ELSE {designed}

(***************************************************************************)
(* scipy.signal.sosfilt(sos, x): a forward (causal) cascade, so output     *)
(* sample n is the response of sos to x[1..n]; it filters a copy of x and  *)
(* returns the copy.  On an empty 1-D x its reshape to (-1, 0) raises in   *)
(* numpy; a version that special-cases it returns an empty array.          *)
(***************************************************************************)
sosfilt(sos, x) ==
    LET y == [n \in 1..Len(x) |-> [sos |-> sos, pre |-> RawValues(SubSeq(x, 1, n))]]
        returned == [err |-> "none", ret |-> y, ref |-> "new", x |-> x]
        rejected == [err |-> "NumpyValueError", ret |-> <<>>, ref |-> "none", x |-> x]
    IN  IF Len(x) = 0 THEN {rejected, returned} ELSE {returned}

(***************************************************************************)
(* denoise.py                                                              *)
(***************************************************************************)
ORDER == 18

LOWCUT == 80

HIGHCUT == 8200

\* butter_bandpass with the upper test written high > 1: a rate of exactly twice
\* the high cutoff gets through to the filter design.
butter_bandpass_strict(lowcut, highcut, rate, order) ==
    LET nyquist == RMul(Half, RInt(rate))
    IN  IF nyquist.num = 0
        THEN {[err |-> "ZeroDivisionError", sos |-> NoSos, lib |-> <<>>]}
        ELSE LET low == RDiv(RInt(lowcut), nyquist)
                 high == RDiv(RInt(highcut), nyquist)
             IN  IF RLeq(low, RInt(0)) \/ RLt(RInt(1), high)
                 THEN {[err |-> "InvalidFrequencyRange", sos |-> NoSos, lib |-> <<>>]}
                 ELSE {[err |-> b.err, sos |-> b.sos, lib |-> <<"butter">>] :
                          b \in butter(order, low, high)}

\* butter_bandpass normalising by the sample rate instead of by half of it.
butter_bandpass_full_rate(lowcut, highcut, rate, order) ==
    LET nyquist == RInt(rate)
    IN  IF nyquist.num = 0
        THEN {[err |-> "ZeroDivisionError", sos |-> NoSos, lib |-> <<>>]}
        ELSE LET low == RDiv(RInt(lowcut), nyquist)
                 high == RDiv(RInt(highcut), nyquist)
             IN  IF RLeq(low, RInt(0)) \/ RLeq(RInt(1), high)
                 THEN {[err |-> "InvalidFrequencyRange", sos |-> NoSos, lib |-> <<>>]}
                 ELSE {[err |-> b.err, sos |-> b.sos, lib |-> <<"butter">>] :
                          b \in butter(order, low, high)}

butter_bandpass(lowcut, highcut, rate, order) ==
    LET nyquist == RMul(Half, RInt(rate))
    IN  IF nyquist.num = 0
        THEN {[err |-> "ZeroDivisionError", sos |-> NoSos, lib |-> <<>>]}
        ELSE LET low == RDiv(RInt(lowcut), nyquist)
                 high == RDiv(RInt(highcut), nyquist)
             IN  IF RLeq(low, RInt(0)) \/ RLeq(RInt(1), high)
                 THEN {[err |-> "InvalidFrequencyRange", sos |-> NoSos, lib |-> <<>>]}
                 ELSE {[err |-> b.err, sos |-> b.sos, lib |-> <<"butter">>] :
                          b \in butter(order, low, high)}

\* denoise_basic filtering in place: the result is written over chunk and chunk
\* is returned.
denoise_basic_in_place(chunk, rate) ==
    UNION { IF b.err # "none"
            THEN {Raised(b.err, b.lib, chunk)}
            ELSE {[err |-> f.err, sos |-> b.sos, ret |-> f.ret,
                   ref |-> IF f.err = "none" THEN "input" ELSE "none",
                   lib |-> Append(b.lib, "sosfilt"),
                   x |-> IF f.err = "none" THEN f.ret ELSE f.x] :
                     f \in sosfilt(b.sos, chunk)}
          : b \in butter_bandpass(LOWCUT, HIGHCUT, rate, ORDER) }

denoise_basic(chunk, rate) ==
    UNION { IF b.err # "none"
            THEN {Raised(b.err, b.lib, chunk)}
            ELSE {[err |-> f.err, sos |-> b.sos, ret |-> f.ret, ref |-> f.ref,
                   lib |-> Append(b.lib, "sosfilt"), x |-> f.x] :
                     f \in sosfilt(b.sos, chunk)}
          : b \in butter_bandpass(LOWCUT, HIGHCUT, rate, ORDER) }

\* denoise comparing the mode by its value, so that the plain integer 1 is BASIC.
denoise_by_value(chunk, rate, denoise_type) ==
    IF denoise_type.value = BASIC.value
    THEN denoise_basic(chunk, rate)
    ELSE {Raised("UnsupportedMode", <<>>, chunk)}

denoise(chunk, rate, denoise_type) ==
    IF denoise_type = BASIC
    THEN denoise_basic(chunk, rate)
    ELSE {Raised("UnsupportedMode", <<>>, chunk)}


(***************************************************************************)
(* matplotlib.pyplot.  figs: the figure objects, by identity.  stack: the  *)
(* open figures in activation order (Gcf.figs); the last is the current    *)
(* figure, the one every plt.* call that names no figure acts on.  pyplot  *)
(* keeps one such state per process, shared by all threads.                *)
(***************************************************************************)
MaxFigs == 2

FigIds == 1..MaxFigs

NewFigure(w, h) ==
    [w |-> w, h |-> h, axes |-> FALSE, artists |-> <<>>, axis_off |-> FALSE,
     layout |-> "default", colorbar |-> FALSE, title |-> ""]

NoPyplot == [figs |-> <<>>, stack |-> <<>>]

FreeIds(P) == FigIds \ DOMAIN P.figs

\* plt.figure(): a new figure object, registered and made current
plt_figure(P, w, h) ==
    LET id == CHOOSE i \in FreeIds(P) : \A j \in FreeIds(P) : i <= j
    IN  [figs |-> P.figs @@ (id :> NewFigure(w, h)), stack |-> Append(P.stack, id)]

\* plt.gcf(): the current figure, created (6.4 x 4.8 in at 100 dpi) when none is open
gcf(P) == IF P.stack = <<>> THEN plt_figure(P, 640, 480) ELSE P

Current(P) == P.stack[Len(P.stack)]

\* Gcf.destroy: the figure leaves the registry; the one activated before it is current
Destroy(P, id) ==
    [figs |-> [i \in DOMAIN P.figs \ {id} |-> P.figs[i]],
     stack |-> SelectSeq(P.stack, LAMBDA i : i # id)]

\* plt.close(): closes the current figure, if there is one
plt_close(P) == IF P.stack = <<>> THEN P ELSE Destroy(P, Current(P))

\* The Agg renderer refuses a canvas of 2^16 pixels or more in either direction.
TooLarge(f) == f.w >= 65536 \/ f.h >= 65536

\* What the calls do to the figure they reach.  artists: what is drawn on the
\* axes and can be seen.  An image drawn by imshow is opaque and resets the view
\* to its own extent, so it hides whatever was drawn on the axes before it.
RECURSIVE Visible(_)
Visible(artists) ==
    IF artists = <<>> THEN <<>>
    ELSE LET n == Len(artists)
         IN  IF artists[n].kind = "image" THEN <<artists[n]>>
             ELSE Append(Visible(SubSeq(artists, 1, n - 1)), artists[n])

Draw(f, artist) == [f EXCEPT !.axes = TRUE, !.artists = Visible(Append(@, artist))]

AxisOff(f) == [f EXCEPT !.axes = TRUE, !.axis_off = TRUE]

SetTitle(f, t) == [f EXCEPT !.axes = TRUE, !.title = t]

Colorbar(f) == [f EXCEPT !.colorbar = TRUE]

TightLayout(f) == [f EXCEPT !.layout = "tight"]

SubplotsAdjust(f) == [f EXCEPT !.layout = "full"]

\* The plt.* calls that name no figure: each acts on the current figure.
plt_imshow(P, artist) ==
    LET Q == gcf(P)
    IN  [Q EXCEPT !.figs[Current(Q)] = Draw(@, artist)]

plt_axis_off(P) ==
    LET Q == gcf(P)
    IN  [Q EXCEPT !.figs[Current(Q)] = AxisOff(@)]

plt_title(P, t) ==
    LET Q == gcf(P)
    IN  [Q EXCEPT !.figs[Current(Q)] = SetTitle(@, t)]

plt_tight_layout(P) ==
    LET Q == gcf(P)
    IN  [Q EXCEPT !.figs[Current(Q)] = TightLayout(@)]

plt_subplots_adjust(P) ==
    LET Q == gcf(P)
    IN  [Q EXCEPT !.figs[Current(Q)] = SubplotsAdjust(@)]

(***************************************************************************)
(* The picture a figure gives (savefig, bbox_inches='tight', pad_inches=0).*)
(***************************************************************************)
Render(f) ==
    [w |-> f.w, h |-> f.h, layers |-> f.artists, decorated |-> ~f.axis_off,
     layout |-> f.layout, colorbar |-> f.colorbar, title |-> f.title]

NoImage ==
    [w |-> 0, h |-> 0, layers |-> <<>>, decorated |-> FALSE,
     layout |-> "", colorbar |-> FALSE, title |-> ""]

(***************************************************************************)
(* spectrogram.py                                                          *)
(***************************************************************************)
Widths == {400, 70000}

HEIGHT == 300

Arrays == {1, 2}                              \* the pixel arrays a caller saves

SavePaths == {"out.png", "missing_dir/out.png"}

Writable(path) == path = "out.png"

NoSpectrogram == [mel |-> FALSE, y |-> <<>>, sr |-> 0]

\* lines 33-40: the decibel matrix, of the signal and the rate it is computed from
Spectrogram(a, mel) == [mel |-> mel, y |-> a.audio_signal, sr |-> a.sample_rate]

Mesh(s_db) == [kind |-> "mesh", s_db |-> s_db, arr |-> 0]

Picture(arr) == [kind |-> "image", s_db |-> NoSpectrogram, arr |-> arr]

NoAudio == [audio_signal |-> <<>>, sample_rate |-> 0]

NoFrame ==
    [fn |-> "none", pc |-> "idle", mel |-> FALSE, show_axis |-> FALSE, w |-> 0, h |-> 0,
     arr |-> 0, path |-> "", fig |-> 0, buf |-> "none", s_db |-> NoSpectrogram,
     image |-> NoImage, err |-> "none", figs_before |-> 0, audio_before |-> NoAudio]

Callers == {1, 2}

\* the buffer a caller passes: caller 1 the loaded recording, caller 2 one of its own
OtherAudio == [audio_signal |-> <<Raw(0), Raw(1)>>, sample_rate |-> 22050]

AudioOf(c, a) == IF c = 1 THEN a ELSE OtherAudio


(***************************************************************************)
(* spectrogram_script.py: process.  Strings are sequences of characters.   *)
(***************************************************************************)
MaxPathLen == 4                  \* longest output_path

MaxSamples == 11                 \* largest number_of_samples

PathChars == {"o", ".", "/"}

OutputPaths == SeqsUpTo(PathChars, MaxPathLen)      \* <<>>: None or ""

\* number_of_samples as passed: an int, or something that is none (argparse's None)
SampleCounts ==
    {[int |-> TRUE, v |-> k] : k \in -1..MaxSamples} \cup {[int |-> FALSE, v |-> 0]}

Digits == <<"0", "1", "2", "3", "4", "5", "6", "7", "8", "9">>

\* str(i) of an int i >= 0
RECURSIVE str(_)
str(i) ==
    IF i < 10 THEN <<Digits[i + 1]>>
    ELSE Append(str(i \div 10), Digits[(i % 10) + 1])

\* s.split(sep): the pieces of s between the occurrences of sep
RECURSIVE split(_, _)
split(s, sep) ==
    IF \A k \in 1..Len(s) : s[k] # sep THEN <<s>>
    ELSE LET k == CHOOSE j \in 1..Len(s) : s[j] = sep /\ \A m \in 1..(j - 1) : s[m] # sep
         IN  <<SubSeq(s, 1, k - 1)>> \o split(SubSeq(s, k + 1, Len(s)), sep)

\* lines 37-38
NormalizedSamples(number_of_samples) ==
    IF ~number_of_samples.int \/ number_of_samples.v < 1 THEN 1 ELSE number_of_samples.v

\* lines 59-61 of iteration i: the path the spectrogram is saved at
\* (split_path[1] of a path without a dot raises IndexError)
SavePath(output_path, i) ==
    LET split_path == split(output_path, ".")
    IN  IF Len(split_path) < 2
        THEN [err |-> "IndexError", path |-> <<>>]
        ELSE [err |-> "none", path |-> split_path[1] \o str(i) \o <<".">> \o split_path[2]]

NoProcess ==
    [pc |-> "idle", number_of_samples |-> [int |-> FALSE, v |-> 0], n |-> 0, i |-> 0,
     output_path |-> <<>>, saved |-> <<>>, err |-> "none"]

(***************************************************************************)
(* The caller of denoise.py: loads audio, calls denoise or butter_bandpass.*)
(***************************************************************************)
NoCall ==
    [op |-> "none", mode |-> BASIC, lowcut |-> 0, highcut |-> 0, rate |-> 0,
     chunk |-> <<>>, out |-> Raised("none", <<>>, <<>>)]

Init ==
    /\ audio = [audio_signal |-> <<Raw(1)>>, sample_rate |-> 44100]
    /\ dn = NoCall
    /\ pyplot = NoPyplot
    /\ files = [p \in SavePaths |-> NoImage]
    /\ frame = [c \in Callers |-> NoFrame]
    /\ proc = NoProcess

Ended(c) == frame[c].pc \in {"idle", "returned", "raised"}

\* a recording is loaded between calls, while no figure is open
LoadAudio ==
    /\ \A c \in Callers : Ended(c)
    /\ pyplot = NoPyplot
    /\ \E b \in Buffers, r \in SampleRates :
           audio' = [audio_signal |-> b, sample_rate |-> r]
    /\ dn' = NoCall
    /\ frame' = [c \in Callers |-> NoFrame]
    /\ UNCHANGED <<proc, pyplot, files>>

\* the caller is one thread: it calls denoise between its spectrogram calls
CallDenoise ==
    /\ \A c \in Callers : Ended(c)
    /\ \E mode \in DenoiseModes :
         \E o \in denoise(audio.audio_signal, audio.sample_rate, mode) :
           /\ dn' = [op |-> "denoise", mode |-> mode, lowcut |-> LOWCUT,
                     highcut |-> HIGHCUT, rate |-> audio.sample_rate,
                     chunk |-> audio.audio_signal, out |-> o]
           /\ audio' = [audio EXCEPT !.audio_signal = o.x]
    /\ UNCHANGED <<proc, pyplot, files, frame>>

CallButterBandpass ==
    /\ \E lowcut \in Cutoffs, highcut \in Cutoffs :
         \E b \in butter_bandpass(lowcut, highcut, audio.sample_rate, ORDER) :
           dn' = [op |-> "butter_bandpass", mode |-> BASIC, lowcut |-> lowcut,
                  highcut |-> highcut, rate |-> audio.sample_rate, chunk |-> <<>>,
                  out |-> [Raised(b.err, b.lib, <<>>) EXCEPT !.sos = b.sos]]
    /\ UNCHANGED <<proc, audio, pyplot, files, frame>>

(***************************************************************************)
(* gen_spectrogram, a statement at a time.  frame[c].pc is the statement   *)
(* caller c is about to run.                                               *)
(***************************************************************************)
At(c, fn, pc) == frame[c].fn = fn /\ frame[c].pc = pc

Goto(c, pc) == frame' = [frame EXCEPT ![c].pc = pc]

Raise(c, e) == frame' = [frame EXCEPT ![c].pc = "raised", ![c].err = e]

\* a call starts only while a figure object is left for it
Room ==
    Cardinality(DOMAIN pyplot.figs)
      + Cardinality({c \in Callers : frame[c].pc \in {"spec", "subplots", "imshow"}})
    < MaxFigs

Enter(c, f) ==
    /\ Ended(c)
    /\ Room
    /\ frame' = [frame EXCEPT ![c] =
                    [f EXCEPT !.figs_before = Len(pyplot.stack), !.audio_before = audio]]
    /\ UNCHANGED <<proc, audio, dn, pyplot, files>>

StartGen(c) ==
    \E mel \in BOOLEAN, show_axis \in BOOLEAN, w \in Widths :
        Enter(c, [NoFrame EXCEPT !.fn = "gen_spectrogram", !.pc = "spec", !.mel = mel,
                                 !.show_axis = show_axis, !.w = w, !.h = HEIGHT])

\* lines 33-40: melspectrogram / stft, then the decibel scale
GenSpectrogram(c) ==
    /\ At(c, "gen_spectrogram", "spec")
    /\ frame' = [frame EXCEPT ![c].s_db = Spectrogram(AudioOf(c, audio), frame[c].mel),
                              ![c].pc = "subplots"]
    /\ UNCHANGED <<proc, audio, dn, pyplot, files>>

\* line 42: fig, ax = plt.subplots(figsize=..., dpi=dpi)
GenSubplots(c) ==
    /\ At(c, "gen_spectrogram", "subplots")
    /\ LET P == plt_figure(pyplot, frame[c].w, frame[c].h)
           id == Current(P)
       IN  /\ pyplot' = [P EXCEPT !.figs[id].axes = TRUE]
           /\ frame' = [frame EXCEPT ![c].fig = id, ![c].pc = "specshow"]
    /\ UNCHANGED <<proc, audio, dn, files>>

\* lines 44-49: librosa.display.specshow(s_db, ..., ax=ax)
GenSpecshow(c) ==
    /\ At(c, "gen_spectrogram", "specshow")
    /\ pyplot' = [pyplot EXCEPT !.figs[frame[c].fig] = Draw(@, Mesh(frame[c].s_db))]
    /\ Goto(c, IF frame[c].show_axis THEN "colorbar" ELSE "axis_off")
    /\ UNCHANGED <<proc, audio, dn, files>>

\* line 52: plt.colorbar(img, ...) is gcf().colorbar(img, ...); the colorbar's axes
\* go to the current figure or to the figure of img, by the matplotlib version
GenColorbar(c) ==
    /\ At(c, "gen_spectrogram", "colorbar")
    /\ LET P == gcf(pyplot)
       IN  \E target \in {Current(P), frame[c].fig} :
               pyplot' = [P EXCEPT !.figs[target] = Colorbar(@)]
    /\ Goto(c, "title")
    /\ UNCHANGED <<proc, audio, dn, files>>

\* line 53: plt.title('Spectrogram')
GenTitle(c) ==
    /\ At(c, "gen_spectrogram", "title")
    /\ pyplot' = plt_title(pyplot, "Spectrogram")
    /\ Goto(c, "savefig")
    /\ UNCHANGED <<proc, audio, dn, files>>

\* line 55: plt.axis('off')
GenAxisOff(c) ==
    /\ At(c, "gen_spectrogram", "axis_off")
    /\ pyplot' = plt_axis_off(pyplot)
    /\ Goto(c, "tight_layout")
    /\ UNCHANGED <<proc, audio, dn, files>>

\* line 56: plt.tight_layout(pad=0), which needs a renderer of the current figure
GenTightLayout(c) ==
    /\ At(c, "gen_spectrogram", "tight_layout")
    /\ LET P == gcf(pyplot)
       IN  IF TooLarge(P.figs[Current(P)])
           THEN pyplot' = P /\ Raise(c, "ValueError")
           ELSE pyplot' = plt_tight_layout(pyplot) /\ Goto(c, "subplots_adjust")
    /\ UNCHANGED <<proc, audio, dn, files>>

\* line 57: plt.subplots_adjust(left=0, right=1, top=1, bottom=0)
GenSubplotsAdjust(c) ==
    /\ At(c, "gen_spectrogram", "subplots_adjust")
    /\ pyplot' = plt_subplots_adjust(pyplot)
    /\ Goto(c, "savefig")
    /\ UNCHANGED <<proc, audio, dn, files>>

\* lines 59-60: buf = BytesIO(); fig.savefig(buf, ...)
GenSavefig(c) ==
    /\ At(c, "gen_spectrogram", "savefig")
    /\ LET f == pyplot.figs[frame[c].fig]
       IN  IF TooLarge(f)
           THEN frame' = [frame EXCEPT ![c].buf = "open", ![c].pc = "raised",
                                       ![c].err = "ValueError"]
           ELSE frame' = [frame EXCEPT ![c].buf = "open", ![c].image = Render(f),
                                       ![c].pc = "close_buf"]
    /\ UNCHANGED <<proc, audio, dn, pyplot, files>>

\* lines 61-66: the PNG is read back as an RGB array; buf.close()
GenCloseBuf(c) ==
    /\ At(c, "gen_spectrogram", "close_buf")
    /\ frame' = [frame EXCEPT ![c].buf = "closed", ![c].pc = "close_fig"]
    /\ UNCHANGED <<proc, audio, dn, pyplot, files>>

\* lines 67-69: plt.close(fig); return image_array
GenCloseFig(c) ==
    /\ At(c, "gen_spectrogram", "close_fig")
    /\ pyplot' = Destroy(pyplot, frame[c].fig)
    /\ Goto(c, "returned")
    /\ UNCHANGED <<proc, audio, dn, files>>

(***************************************************************************)
(* save_spectrogram, a statement at a time.                                *)
(***************************************************************************)
StartSave(c) ==
    \E arr \in Arrays, path \in SavePaths :
        Enter(c, [NoFrame EXCEPT !.fn = "save_spectrogram", !.pc = "imshow",
                                 !.arr = arr, !.path = path])

\* line 80: plt.imshow(spectrogram)
SaveImshow(c) ==
    /\ At(c, "save_spectrogram", "imshow")
    /\ pyplot' = plt_imshow(pyplot, Picture(frame[c].arr))
    /\ Goto(c, "axis_off")
    /\ UNCHANGED <<proc, audio, dn, files>>

\* line 81: plt.axis('off')
SaveAxisOff(c) ==
    /\ At(c, "save_spectrogram", "axis_off")
    /\ pyplot' = plt_axis_off(pyplot)
    /\ Goto(c, "savefig")
    /\ UNCHANGED <<proc, audio, dn, files>>

\* line 82: plt.savefig(file_path, bbox_inches='tight', pad_inches=0)
SaveSavefig(c) ==
    /\ At(c, "save_spectrogram", "savefig")
    /\ LET P == gcf(pyplot)
           f == P.figs[Current(P)]
       IN  /\ pyplot' = P
           /\ IF TooLarge(f)
              THEN Raise(c, "ValueError") /\ UNCHANGED files
              ELSE IF ~Writable(frame[c].path)
              THEN Raise(c, "FileNotFoundError") /\ UNCHANGED files
              ELSE /\ files' = [files EXCEPT ![frame[c].path] = Render(f)]
                   /\ frame' = [frame EXCEPT ![c].image = Render(f), ![c].pc = "close"]
    /\ UNCHANGED <<proc, audio, dn>>

\* line 83: plt.close()
SaveClose(c) ==
    /\ At(c, "save_spectrogram", "close")
    /\ pyplot' = plt_close(pyplot)
    /\ Goto(c, "returned")
    /\ UNCHANGED <<proc, audio, dn, files>>

GenStep(c) ==
    \/ GenSpectrogram(c)
    \/ GenSubplots(c)
    \/ GenSpecshow(c)
    \/ GenColorbar(c)
    \/ GenTitle(c)
    \/ GenAxisOff(c)
    \/ GenTightLayout(c)
    \/ GenSubplotsAdjust(c)
    \/ GenSavefig(c)
    \/ GenCloseBuf(c)
    \/ GenCloseFig(c)

SaveStep(c) ==
    \/ SaveImshow(c)
    \/ SaveAxisOff(c)
    \/ SaveSavefig(c)
    \/ SaveClose(c)

(***************************************************************************)
(* process, an iteration of its loop at a time.  Reading the file and      *)
(* generating the spectrogram (lines 41-56) leave no trace in proc; the    *)
(* iteration's save is recorded by its path.                               *)
(***************************************************************************)
StartProcess ==
    /\ proc.pc \in {"idle", "returned", "raised"}
    /\ \E number_of_samples \in SampleCounts, output_path \in OutputPaths :
           proc' = [NoProcess EXCEPT !.pc = "loop",
                                     !.number_of_samples = number_of_samples,
                                     !.n = NormalizedSamples(number_of_samples),
                                     !.output_path = output_path]
    /\ UNCHANGED <<audio, dn, pyplot, files, frame>>

ProcessIteration ==
    /\ proc.pc = "loop"
    /\ proc.i < proc.n
    /\ IF proc.output_path = <<>>
       THEN proc' = [proc EXCEPT !.i = @ + 1]
       ELSE LET s == SavePath(proc.output_path, proc.i)
            IN  IF s.err # "none"
                THEN proc' = [proc EXCEPT !.pc = "raised", !.err = s.err]
                ELSE proc' = [proc EXCEPT !.i = @ + 1, !.saved = Append(@, s.path)]
    /\ UNCHANGED <<audio, dn, pyplot, files, frame>>

ProcessReturn ==
    /\ proc.pc = "loop"
    /\ proc.i = proc.n
    /\ proc' = [proc EXCEPT !.pc = "returned"]
    /\ UNCHANGED <<audio, dn, pyplot, files, frame>>

(***************************************************************************)
(* The specifications.                                                     *)
(*   SpecDenoise   calls into denoise.py                                   *)
(*   SpecParallel  two threads, each calling gen_spectrogram               *)
(*   SpecSequence  one caller: gen_spectrogram and save_spectrogram calls, *)
(*                 one after the other                                     *)
(*   SpecPipeline  one caller: load, denoise, gen_spectrogram              *)
(*   SpecProcess   runs of process()                                       *)
(***************************************************************************)
NextDenoise == LoadAudio \/ CallDenoise \/ CallButterBandpass

SpecDenoise == Init /\ [][NextDenoise]_vars

NextParallel == \E c \in Callers : StartGen(c) \/ GenStep(c)

SpecParallel == Init /\ [][NextParallel]_vars

NextSequence == StartGen(1) \/ GenStep(1) \/ StartSave(1) \/ SaveStep(1)

SpecSequence == Init /\ [][NextSequence]_vars

NextPipeline == LoadAudio \/ CallDenoise \/ StartGen(1) \/ GenStep(1)

SpecPipeline == Init /\ [][NextPipeline]_vars

NextProcess == StartProcess \/ ProcessIteration \/ ProcessReturn

SpecProcess == Init /\ [][NextProcess]_vars

(***************************************************************************)
(* Properties of denoise.py.  dn records the last call: its arguments and  *)
(* how it ended.                                                           *)
(***************************************************************************)
NothingReturned(o) == o.ret = <<>> /\ o.ref = "none"

\* C1: denoise fails with the unsupported-mode error for every mode that is not
\* DenoiseType.BASIC, calling neither the filter design nor the filter and
\* returning nothing; for BASIC it never raises that error and ends exactly as
\* denoise_basic(chunk, fs) ends.
C1_UnsupportedModeRejected ==
    dn.op = "denoise" =>
        /\ dn.mode # BASIC =>
              /\ dn.out.err = "UnsupportedMode"
              /\ dn.out.lib = <<>>
              /\ NothingReturned(dn.out)
        /\ dn.mode = BASIC =>
              /\ dn.out.err # "UnsupportedMode"
              /\ dn.out \in denoise_basic(dn.chunk, dn.rate)

C1_Witness ==
    /\ dn.op = "denoise"
    /\ dn.mode = [cls |-> "int", value |-> 1]
    /\ dn.out.err = "UnsupportedMode"
    /\ Len(dn.chunk) > 0

\* C2: for fs > 0 and lowcut <= 0 or highcut >= fs/2, butter_bandpass fails with
\* the invalid-frequency-range error before scipy's butter is called; so denoise
\* in BASIC mode fails with that error, returning nothing, for 0 < fs <= 16400.
C2_InvalidRangeRejected ==
    /\ ( /\ dn.op = "butter_bandpass"
         /\ dn.rate > 0
         /\ (dn.lowcut <= 0 \/ 2 * dn.highcut >= dn.rate) )
       => (dn.out.err = "InvalidFrequencyRange" /\ dn.out.lib = <<>>)
    /\ ( /\ dn.op = "denoise"
         /\ dn.mode = BASIC
         /\ 0 < dn.rate
         /\ dn.rate <= 16400 )
       => ( /\ dn.out.err = "InvalidFrequencyRange"
            /\ dn.out.lib = <<>>
            /\ NothingReturned(dn.out) )

C2_Witness ==
    /\ dn.op = "denoise"
    /\ dn.mode = BASIC
    /\ dn.rate = 16400
    /\ dn.out.err = "InvalidFrequencyRange"

\* C3: for every sample rate with 0 < 80 < 8200 < fs/2 and every input buffer,
\* the empty one included, denoise raises no error and returns a buffer as long
\* as the input.
C3_LengthPreserved ==
    ( /\ dn.op = "denoise"
      /\ dn.mode = BASIC
      /\ 2 * HIGHCUT < dn.rate )
    => ( /\ dn.out.err = "none"
         /\ dn.out.ref # "none"
         /\ Len(dn.out.ret) = Len(dn.chunk) )

\* C4 as amended: at 16000 Hz denoise in BASIC mode rejects every buffer with the
\* invalid-frequency-range error (8200 Hz is not below the Nyquist frequency,
\* 8000 Hz): no filter is designed or applied and nothing is returned.
C4_Rejected16k ==
    ( /\ dn.op = "denoise"
      /\ dn.mode = BASIC
      /\ dn.rate = 16000 )
    => ( /\ dn.out.err = "InvalidFrequencyRange"
         /\ dn.out.lib = <<>>
         /\ NothingReturned(dn.out) )

C4_Witness ==
    /\ dn.op = "denoise"
    /\ dn.mode = BASIC
    /\ dn.rate = 16000
    /\ Len(dn.chunk) = MaxLen
    /\ dn.out.err = "InvalidFrequencyRange"

\* C4 as stated: at 16000 Hz denoise in BASIC mode accepts the buffer and
\* returns a filtered buffer; the call does not end in an error.
C4_Accepted16k ==
    ( /\ dn.op = "denoise"
      /\ dn.mode = BASIC
      /\ dn.rate = 16000 )
    => ( /\ dn.out.err = "none"
         /\ dn.out.ref = "new"
         /\ Len(dn.out.ret) = Len(dn.chunk) )

\* C5: butter_bandpass raises the invalid-frequency-range error for every cutoff
\* pair inside (0, fs/2) with lowcut >= highcut, and designs no filter from it.
C5_InvertedBandRejected ==
    ( /\ dn.op = "butter_bandpass"
      /\ 0 < dn.lowcut /\ 2 * dn.lowcut < dn.rate
      /\ 0 < dn.highcut /\ 2 * dn.highcut < dn.rate
      /\ dn.lowcut >= dn.highcut )
    => (dn.out.err = "InvalidFrequencyRange" /\ dn.out.lib = <<>>)

(***************************************************************************)
(* Properties of spectrogram.py.  A call run alone starts with no figure   *)
(* open: its figure gets exactly the call's own operations.                *)
(***************************************************************************)
AloneGen(f) ==
    LET f0 == [NewFigure(f.w, f.h) EXCEPT !.axes = TRUE]
        f1 == Draw(f0, Mesh(f.s_db))
        f2 == IF f.show_axis
              THEN SetTitle(Colorbar(f1), "Spectrogram")
              ELSE SubplotsAdjust(TightLayout(AxisOff(f1)))
    IN  IF TooLarge(f0)
        THEN [err |-> "ValueError", image |-> NoImage]
        ELSE [err |-> "none", image |-> Render(f2)]

AloneSave(f) ==
    LET g == AxisOff(Draw(NewFigure(640, 480), Picture(f.arr)))
    IN  IF ~Writable(f.path)
        THEN [err |-> "FileNotFoundError", image |-> NoImage]
        ELSE [err |-> "none", image |-> Render(g)]

Outcome(f) == [err |-> f.err, image |-> f.image]

Over(c) == frame[c].pc \in {"returned", "raised"}

\* C6: under every interleaving of two gen_spectrogram calls, each call's
\* colorbar, title, axis, tight_layout and subplots_adjust reach only the figure
\* the call created, so each call ends as it ends when run alone.
\* (Stated for calls whose figures the renderer can draw.)
C6_NoInterference ==
    (\A d \in Callers : ~TooLarge(frame[d]))
    => \A c \in Callers :
           (frame[c].fn = "gen_spectrogram" /\ Over(c))
           => Outcome(frame[c]) = AloneGen(frame[c])

\* C7: a call that follows any sequence of earlier calls, failed ones included,
\* ends as the same call ends when it is the first: gen_spectrogram returns the
\* same image, save_spectrogram writes a file showing only the array it was given.
C7_IndependentOfHistory ==
    Over(1) =>
        /\ frame[1].fn = "gen_spectrogram" => Outcome(frame[1]) = AloneGen(frame[1])
        /\ frame[1].fn = "save_spectrogram" =>
              /\ Outcome(frame[1]) = AloneSave(frame[1])
              /\ frame[1].err = "none" => files[frame[1].path] = AloneSave(frame[1]).image

\* C8: when gen_spectrogram or save_spectrogram returns or raises, the figure it
\* created and its PNG buffer are closed: as many figures are open as before it.
C8_ResourcesReleased ==
    Over(1) =>
        /\ Len(pyplot.stack) = frame[1].figs_before
        /\ frame[1].buf # "open"

\* C9: neither transform modifies its input.  After denoise, returning or
\* raising, the caller's buffer holds the samples it held, the rate is the same
\* and a returned buffer is a new array; during and after gen_spectrogram the
\* audio object is as it was when the call began.
C9_InputsUntouched ==
    /\ dn.op = "denoise" =>
          /\ dn.out.x = dn.chunk
          /\ audio.audio_signal = dn.chunk
          /\ audio.sample_rate = dn.rate
          /\ dn.out.ref = (IF dn.out.err = "none" THEN "new" ELSE "none")
    /\ frame[1].fn = "gen_spectrogram" => audio = frame[1].audio_before

C9_Witness ==
    /\ dn.op = "denoise"
    /\ dn.out.err = "none"
    /\ Len(dn.chunk) = MaxLen
    /\ Len(dn.out.ret) = MaxLen
    /\ frame[1].fn = "gen_spectrogram"
    /\ frame[1].pc = "returned"

(***************************************************************************)
(* Properties of process.                                                  *)
(***************************************************************************)
\* where the extension of a path starts (os.path.splitext): at the last dot of
\* the last component that has a character other than a dot before it in the
\* component; past the end when there is none
ExtStart(p) ==
    LET slashes == {k \in 1..Len(p) : p[k] = "/"}
        base == IF slashes = {} THEN 1
                ELSE (CHOOSE k \in slashes : \A m \in slashes : m <= k) + 1
        dots == {k \in base..Len(p) : p[k] = "." /\ \E m \in base..(k - 1) : p[m] # "."}
    IN  IF dots = {} THEN Len(p) + 1
        ELSE CHOOSE k \in dots : \A m \in dots : m <= k

Indexed(p, i) ==
    SubSeq(p, 1, ExtStart(p) - 1) \o str(i) \o SubSeq(p, ExtStart(p), Len(p))

\* C10: with an output_path and a normalized sample count N, process saves
\* exactly N spectrograms, at N distinct paths, the i-th (from 0) at output_path
\* with the decimal index i inserted immediately before its file extension.
C10_IndexedPaths ==
    (proc.pc \in {"returned", "raised"} /\ proc.output_path # <<>>) =>
        /\ proc.err = "none"
        /\ Len(proc.saved) = NormalizedSamples(proc.number_of_samples)
        /\ \A k \in 1..Len(proc.saved) : proc.saved[k] = Indexed(proc.output_path, k - 1)
        /\ \A j, k \in 1..Len(proc.saved) : proc.saved[j] = proc.saved[k] => j = k

====
